---- MODULE Spec2Model ----
(***************************************************************************)
(* A model of the worker-thread pool of src/src/util/threadpool.rs:        *)
(* Task, FifoQueue, TaskPool, ThreadPool (execute / get_task_count / stop) *)
(* and Worker (get_next_task / run).                                       *)
(*                                                                         *)
(* Every thread (the facade's caller and each worker) advances one         *)
(* statement-sized step at a time; the steps a thread takes while it holds *)
(* the pool mutex are separate actions guarded by `lock`, and the steps    *)
(* execute() takes without the mutex (channel send, fetch_add, notify_one) *)
(* interleave freely with them.                                            *)
(***************************************************************************)
EXTENDS Integers, Sequences, FiniteSets, TLC

\* ------------------------------------------------------------------ bounds
\* The largest num_threads a pool is constructed with.
MaxThreads == 2
\* The number of execute() calls a behaviour makes at most.
MaxTasks == 3
\* The width, in bits, of the model's usize (AtomicUsize wraps modulo 2^UsizeBits).
UsizeBits == 4
\* test_for_tasks_with_different_cost scaled: TestK short tasks of other groups,
\* then TestK short tasks of the big task's group (the test uses 10 and 10).
TestK == 2
\* `concurrency` of test_for_tasks_with_different_cost.
TestConcurrency == 2
\* test_fifo_queue scaled: the number of pushes the queue driver makes at most.
MaxPush == 4

\* --------------------------------------------------------------- constants
\* Option::None for prev_gid / a task slot that holds nothing.
NoGid == -1
\* group_with_big_task of test_for_tasks_with_different_cost.
group_with_big_task == 1001
\* The group ids callers of execute() pass in Spec and LiveSpec. The FifoQueue
\* never reads a gid (its hooks ignore it), so one group is enough there; the
\* test drivers below use the several groups of the tests.
Groups == {group_with_big_task}
\* The group ids of test_for_tasks_with_different_cost: 0 .. TestK-1 and the big one.
TestGroups == (0 .. TestK - 1) \cup {group_with_big_task}

UsizeModulus == 2 ^ UsizeBits

VARIABLES
    num_threads,    \* ThreadPool::new's num_threads
    next_task_id,   \* TaskPool.next_task_id
    task_queue,     \* TaskPool.task_queue (FifoQueue.queue), front first
    stop,           \* TaskPool.stop
    jobs,           \* the hand-off channel (Sender -> TaskPool.jobs), oldest first
    lock,           \* holder of the pool Mutex: 0 free, w a worker
    task_count,     \* ThreadPool.task_count / Worker.task_count (AtomicUsize)
    threads,        \* ThreadPool.threads: the JoinHandles not yet drained
    fpc,            \* where the facade's caller is inside execute()/stop()
    ftask,          \* execute's local `task`
    err_msg,        \* stop's local err_msg: one entry per failed join
    joined,         \* stop's drain: the handles joined by the current/last call
    stop_result,    \* what the last stop() returned: "none", "Ok", "Err"
    submitted,      \* number of execute() calls begun (names the job closures)
    pc,             \* pc[w]: where worker w is in run()/get_next_task()
    wtask,          \* wtask[w]: the task `t` worker w holds
    prev_gid,       \* prev_gid[w]: the argument of w's next get_next_task call
    dispatched,     \* history: job closures in the order pop_task returned them
    ran,            \* history: job closures in the order their bodies were invoked
    completed,      \* history: job closures whose worker performed fetch_sub
    pushed,         \* history: tasks in the order they were pushed on the queue
    n_started,      \* history: per group, the workers' on_task_started calls
    n_finished,     \* history: per group, the workers' on_task_finished calls
    events          \* history: events[t], what happened to job closure t, in order

vars == <<num_threads, next_task_id, task_queue, stop, jobs, lock, task_count,
          threads, fpc, ftask, err_msg, joined, stop_result, submitted, pc,
          wtask, prev_gid, dispatched, ran, completed, pushed, n_started,
          n_finished, events>>

poolVars == <<next_task_id, task_queue, stop, jobs>>
facadeVars == <<threads, fpc, ftask, err_msg, joined, stop_result, submitted>>
workerVars == <<pc, wtask, prev_gid>>
logVars == <<dispatched, ran, completed, pushed>>
hookVars == <<n_started, n_finished>>
histVars == <<logVars, hookVars, events>>

Workers == 1 .. num_threads

\* ------------------------------------------------------------------- Task
\* Task::new: id 0 until the task is drained; `task` names the job closure.
TaskNew(gid, job) == [id |-> 0, gid |-> gid, task |-> job]

\* An empty task slot (Option::None).
NoTask == [id |-> 0, gid |-> NoGid, task |-> 0]

Range(s) == {s[i] : i \in 1 .. Len(s)}

\* Every group id a model run can use.
AllGroups == Groups \cup TestGroups
\* The history `events` with event e added for job closure t.
Record(t, e) == [events EXCEPT ![t] = Append(@, e)]
SeqOfJobs(s) == [i \in 1 .. Len(s) |-> s[i].task]

\* -------------------------------------------------------------- FifoQueue
\* Variant: push_front instead of push_back.
FifoPushFront(q, t) == <<t>> \o q
\* FifoQueue::push: push_back.
FifoPush(q, t) == Append(q, t)

\* Variant: pop_back instead of pop_front.
FifoPopBack(q) ==
    IF q = <<>> THEN [task |-> NoTask, queue |-> q]
    ELSE [task |-> q[Len(q)], queue |-> SubSeq(q, 1, Len(q) - 1)]
\* Variant: front() without removing the task.
FifoPeek(q) ==
    IF q = <<>> THEN [task |-> NoTask, queue |-> q]
    ELSE [task |-> Head(q), queue |-> q]
\* FifoQueue::pop: pop_front; the capacity reset replaces an empty queue by an
\* empty queue, so the contents are Tail(q) either way.
FifoPop(q) ==
    IF q = <<>> THEN [task |-> NoTask, queue |-> q]
    ELSE [task |-> Head(q), queue |-> Tail(q)]

\* FifoQueue::on_task_started / on_task_finished: no-ops.
FifoOnTaskStarted(q, gid) == q
FifoOnTaskFinished(q, gid) == q

\* --------------------------------------------------------------- TaskPool
\* Variant: next_task_id is not advanced after a task is stamped.
RECURSIVE TryFillQueueStaleId(_, _, _, _)
TryFillQueueStaleId(q, ch, next, new) ==
    IF ch = <<>> THEN [queue |-> q, jobs |-> ch, next |-> next, new |-> new]
    ELSE LET task == [Head(ch) EXCEPT !.id = next]
         IN TryFillQueueStaleId(Append(q, task), Tail(ch), next, Append(new, task))
\* TaskPool::try_fill_queue: drain the channel, stamping ids in drain order.
\* `new` collects the tasks pushed, for the history variable `pushed`.
RECURSIVE TryFillQueue(_, _, _, _)
TryFillQueue(q, ch, next, new) ==
    IF ch = <<>> THEN [queue |-> q, jobs |-> ch, next |-> next, new |-> new]
    ELSE LET task == [Head(ch) EXCEPT !.id = next]
         IN TryFillQueue(FifoPush(q, task), Tail(ch), next + 1, Append(new, task))

\* Variant: the channel is drained before every pop.
PopTaskFillFirst(q, ch, next) ==
    LET filled == TryFillQueue(q, ch, next, <<>>)
        second == FifoPop(filled.queue)
    IN [task |-> second.task, queue |-> second.queue,
        jobs |-> filled.jobs, next |-> filled.next, new |-> filled.new]

\* TaskPool::pop_task: the queue first; only when it is empty, fill and retry.
PopTask(q, ch, next) ==
    LET first == FifoPop(q) IN
    IF first.task # NoTask
    THEN [task |-> first.task, queue |-> first.queue, jobs |-> ch,
          next |-> next, new |-> <<>>]
    ELSE LET filled == TryFillQueue(first.queue, ch, next, <<>>)
             second == FifoPop(filled.queue)
         IN [task |-> second.task, queue |-> second.queue,
             jobs |-> filled.jobs, next |-> filled.next, new |-> filled.new]

\* Variant: the flag is never read as set.
IsStoppedNever == FALSE
\* TaskPool::is_stopped.
IsStopped == stop

\* ------------------------------------------------------------------- Init
Init ==
    /\ num_threads \in 1 .. MaxThreads
    /\ next_task_id = 0
    /\ task_queue = <<>>
    /\ stop = FALSE
    /\ jobs = <<>>
    /\ lock = 0
    /\ task_count = 0
    /\ threads = [i \in 1 .. num_threads |-> i]
    /\ fpc = "idle"
    /\ ftask = NoTask
    /\ err_msg = <<>>
    /\ joined = {}
    /\ stop_result = "none"
    /\ submitted = 0
    /\ pc = [w \in 1 .. num_threads |-> "lock"]
    /\ wtask = [w \in 1 .. num_threads |-> NoTask]
    /\ prev_gid = [w \in 1 .. num_threads |-> NoGid]
    /\ dispatched = <<>>
    /\ ran = <<>>
    /\ completed = {}
    /\ pushed = <<>>
    /\ n_started = [g \in AllGroups |-> 0]
    /\ n_finished = [g \in AllGroups |-> 0]
    /\ events = <<>>

\* ---------------------------------------------------- ThreadPool::execute
\* create_context and Task::new, on the caller's thread.
ExecuteCreate(gid) ==
    /\ fpc = "idle"
    /\ ftask' = TaskNew(gid, submitted + 1)
    /\ submitted' = submitted + 1
    /\ fpc' = "send"
    /\ events' = Append(events, <<"create_context">>)
    /\ UNCHANGED <<num_threads, poolVars, lock, task_count, threads, err_msg,
                   joined, stop_result, workerVars, logVars, hookVars>>

\* Variant: the facade keeps no Arc of the pool state, only the workers do.
ArcStrongCountWorkersOnly ==
    Cardinality({w \in Workers : pc[w] \notin {"stopped", "panicked"}})
\* The Arc clones of the pool state (Mutex<TaskPool>, Condvar) that are alive:
\* ThreadPool.task_pool (line 227), and the clone moved into each worker thread
\* (lines 214, 219), dropped when that thread ends.
ArcStrongCount ==
    1 + Cardinality({w \in Workers : pc[w] \notin {"stopped", "panicked"}})

\* TaskPool.jobs, the Receiver, is dropped with the last Arc of the pool state.
ReceiverAlive == ArcStrongCount > 0

\* self.sender.send(task).unwrap(): the channel is unbounded, no lock is taken;
\* send fails only when the Receiver is gone, and unwrap then panics.
ExecuteSend ==
    /\ fpc = "send"
    /\ IF ReceiverAlive
       THEN /\ jobs' = Append(jobs, ftask)
            /\ events' = Record(ftask.task, "send")
            /\ fpc' = "fetch_add"
       ELSE /\ jobs' = jobs
            /\ events' = events
            /\ fpc' = "send_failed"
    /\ UNCHANGED <<num_threads, next_task_id, task_queue, stop, lock, task_count,
                   threads, ftask, err_msg, joined, stop_result, submitted,
                   workerVars, logVars, hookVars>>

\* Variant: the increment is left out.
ExecuteFetchAddForgotten ==
    /\ fpc = "fetch_add"
    /\ fpc' = "notify"
    /\ UNCHANGED <<num_threads, poolVars, lock, task_count, threads, ftask,
                   err_msg, joined, stop_result, submitted, workerVars, histVars>>
\* self.task_count.fetch_add(1, SeqCst).
ExecuteFetchAdd ==
    /\ fpc = "fetch_add"
    /\ task_count' = (task_count + 1) % UsizeModulus
    /\ fpc' = "notify"
    /\ UNCHANGED <<num_threads, poolVars, lock, threads, ftask, err_msg, joined,
                   stop_result, submitted, workerVars, histVars>>

\* cvar.notify_one(), without the lock: wakes one thread blocked in cvar.wait,
\* and does nothing when no thread is blocked there.
ExecuteNotify ==
    /\ fpc = "notify"
    /\ \/ \E w \in Workers :
            /\ pc[w] = "waiting"
            /\ pc' = [pc EXCEPT ![w] = "woken"]
       \/ /\ \A w \in Workers : pc[w] # "waiting"
          /\ pc' = pc
    /\ fpc' = "idle"
    /\ ftask' = NoTask
    /\ UNCHANGED <<num_threads, poolVars, lock, task_count, threads, err_msg,
                   joined, stop_result, submitted, wtask, prev_gid, histVars>>

\* ------------------------------------------------------- ThreadPool::stop
\* Variant: the flag is set without cvar.notify_all().
StopSetFlagNoNotify ==
    /\ fpc = "idle"
    /\ lock = 0
    /\ stop' = TRUE
    /\ err_msg' = <<>>
    /\ joined' = {}
    /\ fpc' = "join"
    /\ UNCHANGED <<num_threads, next_task_id, task_queue, jobs, lock, task_count,
                   threads, ftask, stop_result, submitted, workerVars, histVars>>
\* The block of lines 253-258: lock, tasks.stop(), cvar.notify_all(), unlock;
\* then err_msg = String::new() and the drain begins.
StopSetFlag ==
    /\ fpc = "idle"
    /\ lock = 0
    /\ stop' = TRUE
    /\ pc' = [w \in Workers |-> IF pc[w] = "waiting" THEN "woken" ELSE pc[w]]
    /\ err_msg' = <<>>
    /\ joined' = {}
    /\ fpc' = "join"
    /\ UNCHANGED <<num_threads, next_task_id, task_queue, jobs, lock, task_count,
                   threads, ftask, stop_result, submitted, wtask, prev_gid,
                   histVars>>

\* Variant: the loop is left at the first failed join.
StopJoinFailFast ==
    /\ fpc = "join"
    /\ threads # <<>>
    /\ pc[Head(threads)] \in {"stopped", "panicked"}
    /\ joined' = joined \cup {Head(threads)}
    /\ IF pc[Head(threads)] = "panicked"
       THEN /\ err_msg' = Append(err_msg, Head(threads))
            /\ threads' = <<>>
       ELSE /\ err_msg' = err_msg
            /\ threads' = Tail(threads)
    /\ UNCHANGED <<num_threads, poolVars, lock, task_count, fpc, ftask,
                   stop_result, submitted, workerVars, histVars>>
\* One iteration of `for t in self.threads.drain(..)`: t.join() returns once the
\* thread has ended, Err when it ended by a panic; the Err is appended.
StopJoin ==
    /\ fpc = "join"
    /\ threads # <<>>
    /\ pc[Head(threads)] \in {"stopped", "panicked"}
    /\ joined' = joined \cup {Head(threads)}
    /\ err_msg' = IF pc[Head(threads)] = "panicked"
                  THEN Append(err_msg, Head(threads))
                  ELSE err_msg
    /\ threads' = Tail(threads)
    /\ UNCHANGED <<num_threads, poolVars, lock, task_count, fpc, ftask,
                   stop_result, submitted, workerVars, histVars>>

\* Variant: returning from stop() reopens the pool.
StopReturnClearsFlag ==
    /\ fpc = "join"
    /\ threads = <<>>
    /\ stop_result' = IF err_msg # <<>> THEN "Err" ELSE "Ok"
    /\ stop' = FALSE
    /\ fpc' = "idle"
    /\ UNCHANGED <<num_threads, next_task_id, task_queue, jobs, lock,
                   task_count, threads, ftask, err_msg, joined, submitted,
                   workerVars, histVars>>

\* Lines 265-268: Err(err_msg) when err_msg is not empty, else Ok(()).
StopReturn ==
    /\ fpc = "join"
    /\ threads = <<>>
    /\ stop_result' = IF err_msg # <<>> THEN "Err" ELSE "Ok"
    /\ fpc' = "idle"
    /\ UNCHANGED <<num_threads, poolVars, lock, task_count, threads, ftask,
                   err_msg, joined, submitted, workerVars, histVars>>

\* --------------------------------------------- Worker::get_next_task / run
\* Variant: on_task_finished is skipped when the stop flag is already set.
WLockSkipsFinishedWhenStopped(w) ==
    /\ pc[w] = "lock"
    /\ lock = 0
    /\ lock' = w
    /\ task_queue' = IF prev_gid[w] # NoGid /\ ~stop
                     THEN FifoOnTaskFinished(task_queue, prev_gid[w])
                     ELSE task_queue
    /\ prev_gid' = [prev_gid EXCEPT ![w] = NoGid]
    /\ pc' = [pc EXCEPT ![w] = "loop"]
    /\ n_finished' = IF prev_gid[w] # NoGid /\ ~stop
                     THEN [n_finished EXCEPT ![prev_gid[w]] = @ + 1]
                     ELSE n_finished
    /\ UNCHANGED <<num_threads, next_task_id, stop, jobs, task_count,
                   facadeVars, wtask, logVars, n_started, events>>

\* Lines 297-300: lock.lock(), then on_task_finished for the previous group.
WLock(w) ==
    /\ pc[w] = "lock"
    /\ lock = 0
    /\ lock' = w
    /\ task_queue' = IF prev_gid[w] # NoGid
                     THEN FifoOnTaskFinished(task_queue, prev_gid[w])
                     ELSE task_queue
    /\ prev_gid' = [prev_gid EXCEPT ![w] = NoGid]
    /\ pc' = [pc EXCEPT ![w] = "loop"]
    /\ n_finished' = IF prev_gid[w] # NoGid
                     THEN [n_finished EXCEPT ![prev_gid[w]] = @ + 1]
                     ELSE n_finished
    /\ UNCHANGED <<num_threads, next_task_id, stop, jobs, task_count,
                   facadeVars, wtask, logVars, n_started, events>>

\* Lines 302-304: the head of the loop. A stopped pool makes get_next_task
\* return None: the guard is dropped, run()'s loop ends and the thread ends.
WLoop(w) ==
    /\ pc[w] = "loop"
    /\ lock = w
    /\ IF IsStopped
       THEN /\ pc' = [pc EXCEPT ![w] = "stopped"]
            /\ lock' = 0
       ELSE /\ pc' = [pc EXCEPT ![w] = "pop"]
            /\ lock' = lock
    /\ UNCHANGED <<num_threads, poolVars, task_count, facadeVars, wtask,
                   prev_gid, histVars>>

\* Variant: the guard is dropped right after pop_task, so that on_task_started
\* runs in a later critical section.
WPopTaskDropsLock(w) ==
    /\ pc[w] = "pop"
    /\ lock = w
    /\ lock' = 0
    /\ LET r == PopTask(task_queue, jobs, next_task_id) IN
       /\ task_queue' = r.queue
       /\ jobs' = r.jobs
       /\ next_task_id' = r.next
       /\ pushed' = pushed \o r.new
       /\ IF r.task # NoTask
          THEN /\ wtask' = [wtask EXCEPT ![w] = r.task]
               /\ dispatched' = Append(dispatched, r.task.task)
               /\ pc' = [pc EXCEPT ![w] = "started"]
          ELSE /\ wtask' = wtask
               /\ dispatched' = dispatched
               /\ pc' = [pc EXCEPT ![w] = "wait"]
    /\ UNCHANGED <<num_threads, stop, task_count, facadeVars, prev_gid,
                   ran, completed, hookVars, events>>
\* Line 305: task_pool.pop_task(), under the lock.
WPopTask(w) ==
    /\ pc[w] = "pop"
    /\ lock = w
    /\ LET r == PopTask(task_queue, jobs, next_task_id) IN
       /\ task_queue' = r.queue
       /\ jobs' = r.jobs
       /\ next_task_id' = r.next
       /\ pushed' = pushed \o r.new
       /\ IF r.task # NoTask
          THEN /\ wtask' = [wtask EXCEPT ![w] = r.task]
               /\ dispatched' = Append(dispatched, r.task.task)
               /\ pc' = [pc EXCEPT ![w] = "started"]
          ELSE /\ wtask' = wtask
               /\ dispatched' = dispatched
               /\ pc' = [pc EXCEPT ![w] = "wait"]
    /\ UNCHANGED <<num_threads, stop, lock, task_count, facadeVars, prev_gid,
                   ran, completed, hookVars, events>>

\* Variant: the guard outlives get_next_task, so the task runs under the lock.
WOnTaskStartedKeepsLock(w) ==
    /\ pc[w] = "started"
    /\ lock = w
    /\ task_queue' = FifoOnTaskStarted(task_queue, wtask[w].gid)
    /\ pc' = [pc EXCEPT ![w] = "on_start"]
    /\ n_started' = [n_started EXCEPT ![wtask[w].gid] = @ + 1]
    /\ events' = Record(wtask[w].task, "on_task_started")
    /\ UNCHANGED <<num_threads, next_task_id, stop, jobs, lock, task_count,
                   facadeVars, wtask, prev_gid, logVars, n_finished>>
\* Lines 310-311: on_task_started under the same lock, then return Some(task),
\* which drops the guard.
WOnTaskStarted(w) ==
    /\ pc[w] = "started"
    /\ lock = w
    /\ task_queue' = FifoOnTaskStarted(task_queue, wtask[w].gid)
    /\ lock' = 0
    /\ pc' = [pc EXCEPT ![w] = "on_start"]
    /\ n_started' = [n_started EXCEPT ![wtask[w].gid] = @ + 1]
    /\ events' = Record(wtask[w].task, "on_task_started")
    /\ UNCHANGED <<num_threads, next_task_id, stop, jobs, task_count,
                   facadeVars, wtask, prev_gid, logVars, n_finished>>

\* Line 313: cvar.wait(task_pool) releases the mutex and blocks, atomically.
WWait(w) ==
    /\ pc[w] = "wait"
    /\ lock = w
    /\ lock' = 0
    /\ pc' = [pc EXCEPT ![w] = "waiting"]
    /\ UNCHANGED <<num_threads, poolVars, task_count, facadeVars, wtask,
                   prev_gid, histVars>>

\* Condvar::wait may return without any notification (a spurious wakeup).
WSpurious(w) ==
    /\ pc[w] = "waiting"
    /\ pc' = [pc EXCEPT ![w] = "woken"]
    /\ UNCHANGED <<num_threads, poolVars, lock, task_count, facadeVars, wtask,
                   prev_gid, histVars>>

\* Line 313: a woken cvar.wait re-acquires the mutex and returns to the loop.
WWake(w) ==
    /\ pc[w] = "woken"
    /\ lock = 0
    /\ lock' = w
    /\ pc' = [pc EXCEPT ![w] = "loop"]
    /\ UNCHANGED <<num_threads, poolVars, task_count, facadeVars, wtask,
                   prev_gid, histVars>>

\* Variant: the worker reads the stop flag again before running the task and
\* ends without running it when the flag is set.
WOnStartUnlessStopped(w) ==
    /\ pc[w] = "on_start"
    /\ pc' = [pc EXCEPT ![w] = IF stop THEN "stopped" ELSE "job"]
    /\ events' = IF stop THEN events ELSE Record(wtask[w].task, "on_start")
    /\ UNCHANGED <<num_threads, poolVars, lock, task_count, facadeVars, wtask,
                   prev_gid, logVars, hookVars>>
\* Line 321: t.ctx.on_start().
WOnStart(w) ==
    /\ pc[w] = "on_start"
    /\ pc' = [pc EXCEPT ![w] = "job"]
    /\ events' = Record(wtask[w].task, "on_start")
    /\ UNCHANGED <<num_threads, poolVars, lock, task_count, facadeVars, wtask,
                   prev_gid, logVars, hookVars>>

\* Variant: the worker goes from the job body straight to the decrement.
WJobSkipsOnComplete(w) ==
    /\ pc[w] = "job"
    /\ ran' = Append(ran, wtask[w].task)
    /\ pc' = [pc EXCEPT ![w] = "fetch_sub"]
    /\ events' = Record(wtask[w].task, "job")
    /\ UNCHANGED <<num_threads, poolVars, lock, task_count, facadeVars, wtask,
                   prev_gid, dispatched, completed, pushed, hookVars>>

\* Line 324: (t.task)(t.ctx.clone()), a body that returns.
WJob(w) ==
    /\ pc[w] = "job"
    /\ ran' = Append(ran, wtask[w].task)
    /\ pc' = [pc EXCEPT ![w] = "on_complete"]
    /\ events' = Record(wtask[w].task, "job")
    /\ UNCHANGED <<num_threads, poolVars, lock, task_count, facadeVars, wtask,
                   prev_gid, dispatched, completed, pushed, hookVars>>

\* Line 324 with a body that panics: nothing catches it (lines 322-323), the
\* thread unwinds and ends, holding no lock.
WJobPanic(w) ==
    /\ pc[w] = "job"
    /\ ran' = Append(ran, wtask[w].task)
    /\ pc' = [pc EXCEPT ![w] = "panicked"]
    /\ events' = Record(wtask[w].task, "job")
    /\ UNCHANGED <<num_threads, poolVars, lock, task_count, facadeVars, wtask,
                   prev_gid, dispatched, completed, pushed, hookVars>>

\* Line 325: t.ctx.on_complete().
WOnComplete(w) ==
    /\ pc[w] = "on_complete"
    /\ pc' = [pc EXCEPT ![w] = "fetch_sub"]
    /\ events' = Record(wtask[w].task, "on_complete")
    /\ UNCHANGED <<num_threads, poolVars, lock, task_count, facadeVars, wtask,
                   prev_gid, logVars, hookVars>>

\* Variant: the worker leaves the counter alone.
WFetchSubForgotten(w) ==
    /\ pc[w] = "fetch_sub"
    /\ task_count' = task_count
    /\ completed' = completed \cup {wtask[w].task}
    /\ prev_gid' = [prev_gid EXCEPT ![w] = wtask[w].gid]
    /\ wtask' = [wtask EXCEPT ![w] = NoTask]
    /\ pc' = [pc EXCEPT ![w] = "lock"]
    /\ events' = Record(wtask[w].task, "fetch_sub")
    /\ UNCHANGED <<num_threads, poolVars, lock, facadeVars, dispatched, ran,
                   pushed, hookVars>>

\* Lines 326-327: task_count.fetch_sub(1, SeqCst), then get_next_task(Some(&t.gid)).
WFetchSub(w) ==
    /\ pc[w] = "fetch_sub"
    /\ task_count' = (task_count - 1) % UsizeModulus
    /\ completed' = completed \cup {wtask[w].task}
    /\ prev_gid' = [prev_gid EXCEPT ![w] = wtask[w].gid]
    /\ wtask' = [wtask EXCEPT ![w] = NoTask]
    /\ pc' = [pc EXCEPT ![w] = "lock"]
    /\ events' = Record(wtask[w].task, "fetch_sub")
    /\ UNCHANGED <<num_threads, poolVars, lock, facadeVars, dispatched, ran,
                   pushed, hookVars>>

\* The steps of worker w that the scheduler must eventually let it take.
WorkerStep(w) ==
    \/ WLock(w) \/ WLoop(w) \/ WPopTask(w) \/ WOnTaskStarted(w) \/ WWait(w)
    \/ WWake(w) \/ WOnStart(w) \/ WJob(w) \/ WOnComplete(w) \/ WFetchSub(w)

\* The steps of a call of execute()/stop() that is under way.
FacadeStep ==
    \/ ExecuteSend \/ ExecuteFetchAdd \/ ExecuteNotify \/ StopJoin \/ StopReturn

\* ------------------------------------------------------------------- Spec
Next ==
    \/ \E gid \in Groups : submitted < MaxTasks /\ ExecuteCreate(gid)
    \/ ExecuteSend
    \/ ExecuteFetchAdd
    \/ ExecuteNotify
    \/ StopSetFlag
    \/ StopJoin
    \/ StopReturn
    \/ \E w \in Workers : WLock(w)
    \/ \E w \in Workers : WLoop(w)
    \/ \E w \in Workers : WPopTask(w)
    \/ \E w \in Workers : WOnTaskStarted(w)
    \/ \E w \in Workers : WWait(w)
    \/ \E w \in Workers : WSpurious(w)
    \/ \E w \in Workers : WWake(w)
    \/ \E w \in Workers : WOnStart(w)
    \/ \E w \in Workers : WJob(w)
    \/ \E w \in Workers : WJobPanic(w)
    \/ \E w \in Workers : WOnComplete(w)
    \/ \E w \in Workers : WFetchSub(w)

Spec == Init /\ [][Next]_vars

\* The pool when every job body returns: Next without WJobPanic.
LiveNext ==
    \/ \E gid \in Groups : submitted < MaxTasks /\ ExecuteCreate(gid)
    \/ ExecuteSend
    \/ ExecuteFetchAdd
    \/ ExecuteNotify
    \/ StopSetFlag
    \/ StopJoin
    \/ StopReturn
    \/ \E w \in Workers : WLock(w)
    \/ \E w \in Workers : WLoop(w)
    \/ \E w \in Workers : WPopTask(w)
    \/ \E w \in Workers : WOnTaskStarted(w)
    \/ \E w \in Workers : WWait(w)
    \/ \E w \in Workers : WSpurious(w)
    \/ \E w \in Workers : WWake(w)
    \/ \E w \in Workers : WOnStart(w)
    \/ \E w \in Workers : WJob(w)
    \/ \E w \in Workers : WOnComplete(w)
    \/ \E w \in Workers : WFetchSub(w)

\* Every worker is an OS thread and so is the caller: a step that stays possible
\* is eventually taken. Nothing obliges a caller to begin an execute() or a
\* stop(), and nothing obliges a condition variable to wake spuriously.
Fairness ==
    /\ \A w \in 1 .. MaxThreads : WF_vars(w \in Workers /\ WorkerStep(w))
    /\ WF_vars(FacadeStep)

LiveSpec == Init /\ [][LiveNext]_vars /\ Fairness

\* ----------------------------------- test_for_tasks_with_different_cost
\* The group ids of the test's execute calls, in order: the big task, one short
\* task for each of the groups 0 .. TestK-1, then TestK short tasks of the big
\* task's group.
TestGids ==
    <<group_with_big_task>> \o [i \in 1 .. TestK |-> i - 1]
                            \o [i \in 1 .. TestK |-> group_with_big_task]

\* The big task's body (lines 375-383) returns once it has received one message
\* from every short task; a short task's body sends its gid and returns.
TestJob(w) ==
    /\ wtask[w].task = 1 => Len(ran) = 2 * TestK
    /\ WJob(w)

\* Lines 399-400: the test calls stop() after the big task has signalled ftx.
TestStop ==
    /\ 1 \in Range(ran)
    /\ StopSetFlag

TestInit == Init /\ num_threads = TestConcurrency

TestNext ==
    \/ submitted < Len(TestGids) /\ ExecuteCreate(TestGids[submitted + 1])
    \/ ExecuteSend
    \/ ExecuteFetchAdd
    \/ ExecuteNotify
    \/ TestStop
    \/ StopJoin
    \/ StopReturn
    \/ \E w \in Workers : WLock(w)
    \/ \E w \in Workers : WLoop(w)
    \/ \E w \in Workers : WPopTask(w)
    \/ \E w \in Workers : WOnTaskStarted(w)
    \/ \E w \in Workers : WWait(w)
    \/ \E w \in Workers : WSpurious(w)
    \/ \E w \in Workers : WWake(w)
    \/ \E w \in Workers : WOnStart(w)
    \/ \E w \in Workers : TestJob(w)
    \/ \E w \in Workers : WOnComplete(w)
    \/ \E w \in Workers : WFetchSub(w)

TestSpec == TestInit /\ [][TestNext]_vars

\* ------------------------------------------------------- test_fifo_queue
\* A driver of a FifoQueue alone, as in test_fifo_queue: any interleaving of
\* push, pop and the two hooks. The k-th task pushed has id k-1; fpc names the
\* last call and ftask holds what the last pop returned.
QPush(gid) ==
    /\ LET task == [TaskNew(gid, Len(pushed) + 1) EXCEPT !.id = Len(pushed)] IN
       /\ task_queue' = FifoPush(task_queue, task)
       /\ pushed' = Append(pushed, task)
    /\ fpc' = "push"
    /\ UNCHANGED <<num_threads, next_task_id, stop, jobs, lock, task_count,
                   threads, ftask, err_msg, joined, stop_result, submitted,
                   workerVars, dispatched, ran, completed, hookVars,
                   events>>

QPop ==
    /\ LET r == FifoPop(task_queue) IN
       /\ task_queue' = r.queue
       /\ ftask' = r.task
       /\ dispatched' = IF r.task # NoTask
                        THEN Append(dispatched, r.task.task)
                        ELSE dispatched
    /\ fpc' = "pop"
    /\ UNCHANGED <<num_threads, next_task_id, stop, jobs, lock, task_count,
                   threads, err_msg, joined, stop_result, submitted,
                   workerVars, ran, completed, pushed, hookVars,
                   events>>

QOnTaskStarted(gid) ==
    /\ task_queue' = FifoOnTaskStarted(task_queue, gid)
    /\ fpc' = "on_task_started"
    /\ UNCHANGED <<num_threads, next_task_id, stop, jobs, lock, task_count,
                   threads, ftask, err_msg, joined, stop_result, submitted,
                   workerVars, histVars>>

QOnTaskFinished(gid) ==
    /\ task_queue' = FifoOnTaskFinished(task_queue, gid)
    /\ fpc' = "on_task_finished"
    /\ UNCHANGED <<num_threads, next_task_id, stop, jobs, lock, task_count,
                   threads, ftask, err_msg, joined, stop_result, submitted,
                   workerVars, histVars>>

QueueInit == Init /\ num_threads = 1

QueueNext ==
    \/ \E gid \in TestGroups : Len(pushed) < MaxPush /\ QPush(gid)
    \/ QPop
    \/ \E gid \in TestGroups : QOnTaskStarted(gid)
    \/ \E gid \in TestGroups : QOnTaskFinished(gid)

QueueSpec == QueueInit /\ [][QueueNext]_vars

\* ============================================================ properties
Ended(w) == pc[w] \in {"stopped", "panicked"}
NoDuplicates(s) == \A i, j \in 1 .. Len(s) : s[i] = s[j] => i = j
\* The job closures still in the hand-off channel or in the scheduling queue.
PendingJobs == Range(SeqOfJobs(jobs)) \cup Range(SeqOfJobs(task_queue))
\* No call of execute() is under way.
NoExecuteUnderWay == fpc \in {"idle", "join"}

\* C2: on a pool with exactly one worker (and the FifoQueue), the job bodies are
\* invoked in exactly the order of the execute calls: the k-th body invoked is
\* the k-th closure submitted.
C2_FifoOneWorkerOrder ==
    num_threads = 1 => ran = [i \in 1 .. Len(ran) |-> i]

C2_Witness ==
    /\ num_threads = 1
    /\ Len(ran) = MaxTasks
    /\ Len(pushed) = MaxTasks

\* C3: no task is popped twice (by the same or by two workers), no job body is
\* invoked twice, and two workers never hold the same task.
C3_AtMostOnce ==
    /\ NoDuplicates(dispatched)
    /\ NoDuplicates(ran)
    /\ \A v, w \in Workers :
         (v # w /\ wtask[v] # NoTask /\ wtask[w] # NoTask)
            => wtask[v].task # wtask[w].task

C3_Witness ==
    /\ num_threads = 2
    /\ pc[1] = "job" /\ pc[2] = "job"
    /\ Len(ran) >= 1

\* C4: with no execute call under way, get_task_count() equals the number N of
\* execute calls made as long as no worker has performed a decrement, and it
\* equals 0 once a decrement was performed for every one of the N tasks.
C4_TaskCount ==
    NoExecuteUnderWay =>
        /\ completed = {} => task_count = submitted % UsizeModulus
        /\ completed = 1 .. submitted => task_count = 0

C4_Witness ==
    /\ fpc = "idle"
    /\ submitted = MaxTasks
    /\ completed = 1 .. MaxTasks
    /\ task_count = 0

\* C5: once the stop flag is set, no worker pops a task, and every task that is
\* in the hand-off channel or in the scheduling queue stays there and its body
\* is never invoked.
C5_StoppedNeverPops ==
    [][stop => /\ dispatched' = dispatched
               /\ PendingJobs \subseteq PendingJobs'
               /\ PendingJobs \cap Range(ran') = {}]_vars

C5_Witness ==
    /\ stop_result = "Ok"
    /\ fpc = "idle"
    /\ task_queue # <<>>
    /\ jobs # <<>>

\* C7: a worker ends (without a panic) only from the head of get_next_task's
\* loop, holding the lock and having read the stop flag as set; a task that was
\* dispatched and whose counter decrement has not happened is held by a worker
\* that has not stopped, so a stopped worker has finished every task it popped.
C7_StopOnlyFromAwaiting ==
    /\ [][\A w \in Workers :
            (pc'[w] = "stopped" /\ pc[w] # "stopped")
               => (pc[w] = "loop" /\ lock = w /\ stop)]_vars
    /\ [](\A t \in Range(dispatched) \ completed :
            \E w \in Workers : wtask[w].task = t /\ pc[w] # "stopped")
    /\ [](\A w \in Workers : pc[w] = "stopped" => wtask[w] = NoTask)

C7_Witness ==
    /\ stop
    /\ \E w \in Workers : pc[w] = "on_start"

\* C10: when stop() has returned, every worker thread has ended and every handle
\* was drained; the result is Err exactly when one of the threads joined by the
\* call ended by a panic, and then err_msg holds one entry for each such thread.
C10_StopJoinsAll ==
    (fpc = "idle" /\ stop_result # "none") =>
        /\ threads = <<>>
        /\ \A w \in Workers : Ended(w)
        /\ stop_result = "Err" <=> (\E w \in joined : pc[w] = "panicked")
        /\ stop_result = "Err" <=> err_msg # <<>>
        /\ Range(err_msg) = {w \in joined : pc[w] = "panicked"}

C10_Witness ==
    /\ fpc = "idle"
    /\ stop_result = "Err"
    /\ num_threads = 2
    /\ joined = {1, 2}
    /\ pc[1] = "panicked"
    /\ pc[2] = "stopped"

\* Closure t has been sent on the hand-off channel.
Sent(t) == t \in PendingJobs \/ t \in Range(dispatched)

\* C1: as long as the pool is not stopped (and, under LiveSpec, every job body
\* returns), every task sent on the hand-off channel eventually has its job
\* body invoked.
C1_EverySubmittedTaskRuns ==
    \A t \in 1 .. MaxTasks : Sent(t) ~> (t \in Range(ran) \/ stop)

\* C6: after stop() has set the flag (under LiveSpec, every job body returns),
\* every worker thread eventually reaches Stopped and stop() eventually returns.
C6_StopTerminates ==
    /\ stop ~> (\A w \in Workers : pc[w] = "stopped")
    /\ stop ~> (fpc = "idle" /\ stop_result = "Ok")

C6_Witness ==
    /\ num_threads = 2
    /\ stop_result = "Ok"
    /\ \A w \in Workers : pc[w] = "stopped"
    /\ completed # {}
    /\ PendingJobs # {}

\* The short tasks of the other groups, and the short tasks of the big group.
IsNonG(t) == TestGids[t] # group_with_big_task
IsLaterG(t) == t # 1 /\ TestGids[t] = group_with_big_task

\* C8: in test_for_tasks_with_different_cost (2 workers, FifoQueue, the big task
\* of group G keeps its worker until every short task has run), every short job
\* of another group is invoked before any of the later short jobs of group G.
C8_NonGBeforeLaterG ==
    /\ \A i, j \in 1 .. Len(ran) : (IsLaterG(ran[i]) /\ IsNonG(ran[j])) => j < i
    /\ (\E i \in 1 .. Len(ran) : IsLaterG(ran[i]))
          => \A t \in 1 .. Len(TestGids) : IsNonG(t) => t \in Range(ran)

C8_Witness ==
    /\ Len(ran) = 2 * TestK + 1
    /\ ran[Len(ran)] = 1
    /\ stop_result = "Ok"

\* C9: for any interleaving of push and pop on a FifoQueue, the tasks popped are
\* a prefix of the tasks pushed and the queue holds the rest in push order (so
\* ids come out 0,1,2,..); pop on an empty queue returns no task and leaves the
\* queue empty; on_task_started / on_task_finished leave the queue unchanged.
C9_FifoOrder ==
    /\ [](/\ Len(dispatched) <= Len(pushed)
          /\ dispatched = SubSeq(SeqOfJobs(pushed), 1, Len(dispatched))
          /\ task_queue = SubSeq(pushed, Len(dispatched) + 1, Len(pushed))
          /\ (fpc = "pop" /\ ftask # NoTask)
                => (ftask = pushed[Len(dispatched)] /\ ftask.id = Len(dispatched) - 1))
    /\ [][(fpc' = "pop" /\ task_queue = <<>>)
             => (ftask' = NoTask /\ task_queue' = <<>> /\ dispatched' = dispatched)]_vars
    /\ [][fpc' \in {"on_task_started", "on_task_finished"}
             => task_queue' = task_queue]_vars

C9_Witness ==
    /\ Len(pushed) = MaxPush
    /\ Len(dispatched) = MaxPush
    /\ fpc = "pop"
    /\ ftask = NoTask


\* C11: the Receiver of the hand-off channel is alive in every reachable state,
\* also after stop() has joined every worker, and the send of execute never
\* fails (its unwrap never panics).
C11_ReceiverAlive ==
    /\ ReceiverAlive
    /\ fpc # "send_failed"

C11_Witness ==
    /\ stop_result # "none"
    /\ threads = <<>>
    /\ \A w \in Workers : Ended(w)
    /\ fpc = "fetch_add"
    /\ ftask \in Range(jobs)


\* C12: a task gets its id when it is drained from the hand-off channel into the
\* scheduling queue, by a worker in pop_task under the pool lock, and not
\* before: the k-th task drained gets id k-1, next_task_id is the number of
\* tasks drained, no closure is drained twice, every task in the queue or held
\* by a worker is a stamped one, and a task still in the channel has id 0.
C12_IdsInDrainOrder ==
    /\ [](/\ next_task_id = Len(pushed)
          /\ \A i \in 1 .. Len(pushed) :
               pushed[i].id = i - 1 /\ pushed[i].id < next_task_id
          /\ NoDuplicates(SeqOfJobs(pushed))
          /\ Range(task_queue) \subseteq Range(pushed)
          /\ \A w \in Workers : wtask[w] # NoTask => wtask[w] \in Range(pushed)
          /\ \A i \in 1 .. Len(jobs) :
               jobs[i].id = 0 /\ jobs[i].task \notin Range(SeqOfJobs(pushed))
          /\ ftask.id = 0)
    /\ [][pushed' # pushed
             => /\ \E w \in Workers : lock = w /\ pc[w] = "pop"
                /\ Len(pushed') - Len(pushed) = Len(jobs)
                /\ SeqOfJobs(pushed') = SeqOfJobs(pushed) \o SeqOfJobs(jobs)]_vars

C12_Witness ==
    /\ num_threads = 2
    /\ next_task_id = MaxTasks
    /\ wtask[1].id = 2
    /\ wtask[2].id = 1
    /\ 1 \in completed


\* Worker w is inside a critical section of get_next_task.
InCriticalSection(w) == pc[w] \in {"loop", "pop", "started", "wait"}
\* Worker w is in the Running state: on_start, the job body, on_complete or the
\* counter decrement is its next step.
Running(w) == pc[w] \in {"on_start", "job", "on_complete", "fetch_sub"}

\* C13: a worker is inside get_next_task's critical section exactly when it
\* holds the pool lock, and from a worker's successful pop_task until its
\* on_task_started no other worker enters the critical section and the queue,
\* the id counter and the set of dispatched and drained tasks do not change
\* (the channel is not drained; it can only grow by a send).
C13_PopAndStartedAtomic ==
    /\ [](\A w \in Workers : InCriticalSection(w) <=> lock = w)
    /\ [][\A w \in Workers :
            pc[w] = "started" =>
               \/ pc'[w] = "on_start"
               \/ /\ pc'[w] = "started"
                  /\ lock' = w
                  /\ task_queue' = task_queue
                  /\ next_task_id' = next_task_id
                  /\ dispatched' = dispatched
                  /\ pushed' = pushed
                  /\ Len(jobs') >= Len(jobs)
                  /\ \A v \in Workers \ {w} : ~InCriticalSection(v)']_vars

C13_Witness ==
    /\ num_threads = 2
    /\ pc[1] = "started"
    /\ pc[2] = "lock"
    /\ prev_gid[2] # NoGid
    /\ task_queue # <<>>

\* C14: a worker in the Running state does not hold the pool lock.
C14_RunsWithoutLock ==
    \A w \in Workers : Running(w) => lock # w

\* Two job bodies are about to run at the same time, with the stop flag set
\* while they do.
C14_Witness ==
    /\ num_threads = 2
    /\ pc[1] = "job"
    /\ pc[2] = "job"
    /\ stop
    /\ fpc = "join"


\* ---------------------------------------------------------------- C15
\* Worker w holds a task of group g that it has reported started and not yet
\* reported finished: it is running it, has died in it, or has finished it and
\* is on its way back to the lock.
HoldsUnreported(w, g) ==
    \/ /\ wtask[w].gid = g
       /\ Running(w) \/ pc[w] = "panicked"
    \/ prev_gid[w] = g

\* C15: for each group the on_task_started calls minus the on_task_finished
\* calls equal the number of workers holding a started and not yet reported
\* task of that group, and are never negative; a worker that checks the stop
\* flag, pops, waits or has stopped has nothing left to report; a worker
\* notes a group to report only when it has run the job and decrements the
\* counter, and on_task_finished(g) is called once per noted group, by the
\* worker that noted it, in the step that takes the lock and leads to the stop
\* check.
C15_StartedFinishedBalance ==
    /\ [](\A g \in AllGroups :
            /\ n_finished[g] <= n_started[g]
            /\ n_started[g] - n_finished[g]
                   = Cardinality({w \in Workers : HoldsUnreported(w, g)}))
    /\ [](\A w \in Workers :
            pc[w] \in {"loop", "pop", "started", "wait", "waiting", "woken",
                       "stopped"} => prev_gid[w] = NoGid)
    /\ [][/\ \A w \in Workers :
               (prev_gid'[w] # prev_gid[w] /\ prev_gid'[w] # NoGid)
                   => /\ pc[w] = "fetch_sub"
                      /\ prev_gid'[w] = wtask[w].gid
                      /\ wtask[w].task \in Range(ran)
          /\ \A g \in AllGroups :
               n_finished'[g] # n_finished[g]
                   => /\ n_finished'[g] = n_finished[g] + 1
                      /\ \E w \in Workers :
                            /\ pc[w] = "lock" /\ prev_gid[w] = g
                            /\ lock' = w /\ pc'[w] = "loop"
                            /\ prev_gid'[w] = NoGid]_vars

\* The big task's worker reported it finished although the flag was already
\* set, then stopped; every group's calls are balanced.
C15_Witness ==
    /\ stop
    /\ \E w \in Workers : pc[w] = "stopped"
    /\ n_started[group_with_big_task] = TestK + 1
    /\ n_started[0] = 1
    /\ n_finished = n_started
    /\ \E i \in 1 .. Len(ran) : ran[i] = 1 /\ i = Len(ran)

\* ---------------------------------------------------------------- C16
\* The events of one task in the order of execute (lines 239-241) and of
\* Worker::run (lines 310, 321, 324-326).
TaskEvents ==
    <<"create_context", "send", "on_task_started", "on_start", "job",
      "on_complete", "fetch_sub">>
IsPrefix(s, t) == Len(s) <= Len(t) /\ \A i \in 1 .. Len(s) : s[i] = t[i]
\* The number of events of its task that a worker at a given place has behind it.
EventsBehind(p) ==
    CASE p = "started" -> 2
      [] p = "on_start" -> 3
      [] p = "job" -> 4
      [] p = "on_complete" -> 5
      [] p = "fetch_sub" -> 6
      [] p = "panicked" -> 5

\* C16: every task's events are an initial part of create_context, send,
\* on_task_started, on_start, job, on_complete, decrement, each at most once
\* and in that order; there is one create_context per execute call, made
\* before the send; the events after the send are made by the one worker that
\* holds the task, on_task_started while it holds the lock; and the counter is
\* decremented only by a worker whose task's on_complete has run.
C16_EventOrder ==
    /\ [](/\ Len(events) = submitted
          /\ \A t \in 1 .. Len(events) :
                /\ events[t] # <<>>
                /\ IsPrefix(events[t], TaskEvents)
                /\ t \in PendingJobs => Len(events[t]) = 2
                /\ t \in completed <=> Len(events[t]) = Len(TaskEvents)
          /\ fpc = "send" => events[ftask.task] = <<"create_context">>
          /\ \A w \in Workers :
                wtask[w] # NoTask
                    => Len(events[wtask[w].task]) = EventsBehind(pc[w]))
    /\ [][/\ \A t \in 1 .. Len(events) :
               (events'[t] # events[t] /\ Len(events[t]) >= 2)
                   => /\ Len(events'[t]) = Len(events[t]) + 1
                      /\ \E w \in Workers :
                            /\ wtask[w].task = t
                            /\ pc'[w] # pc[w]
                            /\ \A v \in Workers \ {w} : wtask[v].task # t
                            /\ Len(events[t]) = 2 => lock = w
          /\ task_count' = (task_count - 1) % UsizeModulus
               => \E w \in Workers :
                     /\ pc[w] = "fetch_sub"
                     /\ events[wtask[w].task][Len(events[wtask[w].task])]
                            = "on_complete"
                     /\ Len(events'[wtask[w].task]) = Len(TaskEvents)]_vars

\* Both workers have taken a task through all its events, in either order of
\* submission, and a third task was created and sent.
C16_Witness ==
    /\ num_threads = 2
    /\ submitted = MaxTasks
    /\ \E w \in Workers : pc[w] = "lock" /\ prev_gid[w] # NoGid
    /\ events[1] = TaskEvents
    /\ events[2] = TaskEvents
    /\ Len(events[MaxTasks]) = 2

\* ---------------------------------------------------------------- C17
\* C17: a pop_task that finds the queue non-empty takes its head and leaves
\* the channel and the id counter alone; one that finds it empty moves every
\* item of the channel into the queue, in order, and takes the first; it
\* returns no task exactly when queue and channel are both empty; a worker
\* starts to wait on the condition variable only from a critical section in
\* which its pop_task returned nothing, and the queue is still empty then.
C17_PopQueueFirst ==
    /\ [][\A w \in Workers :
            (pc[w] = "pop" /\ pc'[w] # "pop")
                => /\ lock = w
                   /\ task_queue # <<>>
                        => /\ wtask'[w] = Head(task_queue)
                           /\ task_queue' = Tail(task_queue)
                           /\ jobs' = jobs
                           /\ next_task_id' = next_task_id
                           /\ pushed' = pushed
                   /\ task_queue = <<>>
                        => /\ jobs' = <<>>
                           /\ next_task_id' = next_task_id + Len(jobs)
                           /\ SeqOfJobs(pushed')
                                  = SeqOfJobs(pushed) \o SeqOfJobs(jobs)
                           /\ jobs # <<>>
                                => /\ wtask'[w].task = Head(jobs).task
                                   /\ SeqOfJobs(task_queue')
                                          = Tail(SeqOfJobs(jobs))
                   /\ pc'[w] = "wait" <=> (task_queue = <<>> /\ jobs = <<>>)
                   /\ pc'[w] = "wait" => wtask'[w] = NoTask /\ task_queue' = <<>>
                   /\ pc'[w] # "wait" => pc'[w] = "started" /\ wtask'[w] # NoTask]_vars
    /\ [](\A w \in Workers : pc[w] = "wait" => lock = w /\ task_queue = <<>>)
    /\ [][\A w \in Workers :
            (pc'[w] = "waiting" /\ pc[w] # "waiting")
                => pc[w] = "wait" /\ lock = w /\ task_queue = <<>>]_vars

\* A worker took the second task of a drain from the queue while a later
\* submission stays in the channel, not drained.
C17_Witness ==
    /\ \E w \in Workers : pc[w] = "started" /\ wtask[w].id = 1
    /\ task_queue = <<>>
    /\ jobs # <<>>
    /\ next_task_id = 2
    /\ Len(dispatched) = 2

\* ---------------------------------------------------------------- C18
\* The job bodies that have returned: those entered, less the ones that
\* ended their thread by a panic.
BodiesReturned ==
    Len(ran) - Cardinality({w \in Workers : pc[w] = "panicked"})
\* The workers between the return of their job body and their decrement.
BetweenReturnAndDecrement ==
    {w \in Workers : pc[w] \in {"on_complete", "fetch_sub"}}

\* C18: whenever no execute call is under way, so that get_task_count can be
\* called, the counter exceeds (tasks submitted - job bodies returned) by
\* exactly the number of workers between their body's return and their
\* decrement, hence by at most that number; on a one-worker pool with N
\* submitted and k bodies returned it is N - k or N - k + 1.
C18_CountWithinInFlight ==
    NoExecuteUnderWay =>
        LET excess == task_count - (submitted - BodiesReturned) IN
        /\ excess = Cardinality(BetweenReturnAndDecrement)
        /\ 0 <= excess /\ excess <= num_threads
        /\ num_threads = 1
             => task_count \in {submitted - BodiesReturned,
                                submitted - BodiesReturned + 1}

\* One worker, N = MaxTasks submitted, k = 2 bodies returned, the decrement of
\* the second still to come: the counter reads N - k + 1.
C18_Witness ==
    /\ num_threads = 1
    /\ fpc = "idle"
    /\ submitted = MaxTasks
    /\ BodiesReturned = 2
    /\ pc[1] = "fetch_sub"
    /\ task_count = MaxTasks - 2 + 1

\* ---------------------------------------------------------------- C19
\* C19: the counter never exceeds the number of execute calls started, so it
\* never wraps below zero, and no task is completed (its worker's fetch_sub
\* done) while its execute call still has its fetch_add to do.
C19_NoUnderflow ==
    /\ task_count <= submitted
    /\ \A t \in completed : ~(fpc = "fetch_add" /\ ftask.task = t)

\* ---------------------------------------------------------------- C20
\* A call of stop() has returned.
StopReturned == stop_result # "none"

\* C20: the stop flag is never cleared; once a stop() has returned every
\* worker thread has ended and been joined, nothing is dispatched, run or
\* completed any more and the counter only grows; with no execute under way
\* the counter then equals the tasks left in the queue and the channel
\* (discarded by the stop or submitted later) plus the tasks whose body
\* panicked, so it is not 0 while such a task exists; and a stop() called
\* after a stop() has returned joins no thread and returns Ok.
C20_StopIsPermanent ==
    /\ [][stop => stop']_vars
    /\ [](StopReturned
            => /\ stop
               /\ threads = <<>>
               /\ \A w \in Workers : Ended(w)
               /\ NoExecuteUnderWay
                    => /\ task_count
                            = Len(jobs) + Len(task_queue)
                              + Cardinality({w \in Workers : pc[w] = "panicked"})
                       /\ task_count = submitted - Cardinality(completed)
                       /\ PendingJobs # {} => task_count # 0)
    /\ [][StopReturned
            => /\ StopReturned'
               /\ <<pc, wtask, dispatched, ran, completed, task_queue>>'
                      = <<pc, wtask, dispatched, ran, completed, task_queue>>
               /\ Len(jobs') >= Len(jobs)
               /\ task_count' \in {task_count, task_count + 1}
               /\ (fpc = "join" /\ fpc' = "idle")
                    => joined = {} /\ stop_result' = "Ok"]_vars

\* A second stop() has returned Ok after joining nobody; a task discarded by
\* the first stop is in the queue, a later submission is in the channel, and
\* the counter counts both.
C20_Witness ==
    /\ stop_result = "Ok"
    /\ joined = {}
    /\ fpc = "idle"
    /\ task_queue # <<>>
    /\ jobs # <<>>
    /\ task_count = Len(jobs) + Len(task_queue)
    /\ Len(ran) = 1
====
